---- MODULE Spec2Model ----
(***************************************************************************)
(* Model of backend/server.py: a Flask service holding two process-wide    *)
(* data frames (original_df, processed_df) and three request handlers,     *)
(* upload_csv, remove_na and plot_scatter, plus the summary function       *)
(* describing.  One action per handler; a handler runs to completion.      *)
(*                                                                         *)
(* Values.  A data frame cell, and a cell of a summary table, is a record  *)
(* [k, n, s]: k is the kind ("int", "float", "str", "nan", "none",         *)
(* "opaque", "fmt4g"), n the number for "int"/"float", s the text for      *)
(* "str".  "opaque" stands for a non-null statistic whose real value is    *)
(* not computed here (mean, std, quantiles, top, freq); "fmt4g" for such a *)
(* value after format_sigfig.  A JSON value of a plot request is a record  *)
(* [t, s, n]: t is "null", "str" or "num"; a number is held in tenths      *)
(* (n = 8 is 0.8, n = 60 is 6).                                            *)
(***************************************************************************)
EXTENDS Integers, Sequences, FiniteSets, TLC

VARIABLES
    original_df,    \* the global original_df: None or a data frame
    processed_df,   \* the global processed_df: None or a data frame
    request,        \* the last request handled
    response,       \* the response it was given: status and JSON body
    px_args,        \* the plot_params that request handed to px.scatter, or None
    ingested        \* history: some upload has been answered with its data payload

vars == <<original_df, processed_df, request, response, px_args, ingested>>

(***************************************************************************)
(* Bounds of the model.                                                    *)
(***************************************************************************)
\* The most data fields (lines times columns) an uploaded payload holds.
MaxCells == 4

\* Column names a payload's header line is drawn from (a prefix of it).
ColNames == <<"a", "b">>

\* Raw CSV fields: the empty field, a number, a text.
Fields == {"", "1", "x"}

(***************************************************************************)
(* Cells.                                                                  *)
(***************************************************************************)
None == [none |-> TRUE]

NaN == [k |-> "nan", n |-> 0, s |-> ""]

PyNone == [k |-> "none", n |-> 0, s |-> ""]

IntCell(i) == [k |-> "int", n |-> i, s |-> ""]

FloatCell(i) == [k |-> "float", n |-> i, s |-> ""]

StrCell(str) == [k |-> "str", n |-> 0, s |-> str]

Opaque(label) == [k |-> "opaque", n |-> 0, s |-> label]

isnull(v) == v.k = "nan" \/ v.k = "none"

Range(seq) == {seq[i] : i \in 1..Len(seq)}

(***************************************************************************)
(* pd.read_csv: the payload is a sequence of lines, each a sequence of     *)
(* fields, the first line being the header.  An empty payload raises       *)
(* EmptyDataError; a blank line (one empty field) is skipped; a column's   *)
(* dtype is inferred from its fields; an empty field is NaN.               *)
(***************************************************************************)
NumOf(f) == IF f = "1" THEN 1 ELSE 0

IsNumber(f) == f = "1"

IsBlankLine(line) == line = <<"">>

infer_dtype(fs) ==
    IF Len(fs) = 0 THEN "object"
    ELSE IF \A i \in 1..Len(fs) : fs[i] = "" THEN "float64"
    ELSE IF \A i \in 1..Len(fs) : IsNumber(fs[i]) THEN "int64"
    ELSE IF \A i \in 1..Len(fs) : fs[i] = "" \/ IsNumber(fs[i]) THEN "float64"
    ELSE "object"

parse_field(f, dtype) ==
    IF f = "" THEN NaN
    ELSE IF dtype = "int64" THEN IntCell(NumOf(f))
    ELSE IF dtype = "float64" THEN FloatCell(NumOf(f))
    ELSE StrCell(f)

\* The j-th element of every sequence of seqs, in order.
RECURSIVE Project(_, _)
Project(seqs, j) ==
    IF seqs = << >> THEN << >>
    ELSE <<Head(seqs)[j]>> \o Project(Tail(seqs), j)

\* The dtypes of columns 1..n of the data lines.
RECURSIVE infer_dtypes(_, _)
infer_dtypes(lines, n) ==
    IF n = 0 THEN << >>
    ELSE Append(infer_dtypes(lines, n - 1), infer_dtype(Project(lines, n)))

\* The first n fields of a line as cells of their columns' dtypes.
RECURSIVE parse_line(_, _, _)
parse_line(line, dts, n) ==
    IF n = 0 THEN << >>
    ELSE Append(parse_line(line, dts, n - 1), parse_field(line[n], dts[n]))

RECURSIVE parse_lines(_, _)
parse_lines(lines, dts) ==
    IF lines = << >> THEN << >>
    ELSE <<parse_line(Head(lines), dts, Len(dts))>> \o parse_lines(Tail(lines), dts)

read_csv(content) ==
    IF Len(content) = 0
    THEN [raised |-> TRUE, exc |-> "No columns to parse from file"]
    ELSE LET header == content[1]
             lines  == SelectSeq(Tail(content), LAMBDA l : ~IsBlankLine(l))
             dts    == infer_dtypes(lines, Len(header))
         IN  [raised |-> FALSE,
              value  |-> [columns |-> header,
                          dtypes  |-> dts,
                          rows    |-> parse_lines(lines, dts)]]

(***************************************************************************)
(* DataFrame operations used by the handlers.                              *)
(***************************************************************************)
copy(df) == df

has_nan(row) == \E j \in 1..Len(row) : row[j].k = "nan"

\* dropna(how='all'): only the rows missing every cell go.
dropna_how_all(df) ==
    [df EXCEPT !.rows = SelectSeq(df.rows, LAMBDA r : \E j \in 1..Len(r) : r[j].k # "nan")]

\* dropna(subset=[first column]): only the first column is looked at.
dropna_first_column(df) ==
    [df EXCEPT !.rows = SelectSeq(df.rows, LAMBDA r : r[1].k # "nan")]

dropna(df) ==
    [df EXCEPT !.rows = SelectSeq(df.rows, LAMBDA r : ~has_nan(r))]

column(df, j) == Project(df.rows, j)

\* df.replace({np.nan: None})
replace_nan(v) == IF v.k = "nan" THEN PyNone ELSE v

index_of(seq, e) == CHOOSE p \in 1..Len(seq) : seq[p] = e

\* One row of df.to_dict(orient='records'), NaN replaced.
to_record(df, row) ==
    [c \in Range(df.columns) |-> replace_nan(row[index_of(df.columns, c)])]

RECURSIVE to_records_from(_, _)
to_records_from(df, rows) ==
    IF rows = << >> THEN << >>
    ELSE <<to_record(df, Head(rows))>> \o to_records_from(df, Tail(rows))

to_records(df) == to_records_from(df, df.rows)

(***************************************************************************)
(* describing(df): the per-column summary table.                           *)
(***************************************************************************)
NumericLabels == {"count", "mean", "std", "min", "25%", "50%", "75%", "max"}

ObjectLabels == {"count", "unique", "top", "freq"}

is_numeric_dtype(dtype) == dtype \in {"int64", "float64"}

non_missing(cells) == SelectSeq(cells, LAMBDA v : v.k # "nan")

Min(S) == CHOOSE m \in S : \A o \in S : m <= o

Max(S) == CHOOSE m \in S : \A o \in S : m >= o

\* Series.describe() of one column: its statistics by label.
describe_1d(cells, dtype) ==
    LET present == non_missing(cells)
        cnt     == Len(present)
        nums    == {present[i].n : i \in 1..cnt}
    IN  IF is_numeric_dtype(dtype)
        THEN [l \in NumericLabels |->
                CASE l = "count" -> FloatCell(cnt)
                  [] l = "std"   -> IF cnt < 2 THEN NaN ELSE Opaque(l)
                  [] l = "min"   -> IF cnt = 0 THEN NaN ELSE FloatCell(Min(nums))
                  [] l = "max"   -> IF cnt = 0 THEN NaN ELSE FloatCell(Max(nums))
                  [] OTHER       -> IF cnt = 0 THEN NaN ELSE Opaque(l)]
        ELSE [l \in ObjectLabels |->
                CASE l = "count"  -> IntCell(cnt)
                  [] l = "unique" -> IntCell(Cardinality(Range(present)))
                  [] OTHER        -> IF cnt = 0 THEN NaN ELSE Opaque(l)]

\* The labels of df.describe(include='all'): the union over the columns.
describe_labels(df) ==
    UNION {IF is_numeric_dtype(df.dtypes[j]) THEN NumericLabels ELSE ObjectLabels :
             j \in 1..Len(df.columns)}

format_sigfig(value) ==
    IF ~isnull(value) THEN [k |-> "fmt4g", n |-> value.n, s |-> value.s]
    ELSE value

column_order ==
    <<"ColumnName", "Type", "count", "Miss", "mean", "std", "min",
      "25%", "50%", "75%", "max", "unique", "top", "freq">>

final_columns ==
    <<"ColumnName", "Type", "Rows", "Miss", "mean", "std", "min",
      "25%", "50%", "75%", "max", "unique", "top", "freq">>

\* Lines 16-30 for column j: the missing count, the statistics (mean and std
\* formatted) and the dtype, joined on the column's name.
merged_row(df, j) ==
    LET cells  == column(df, j)
        d      == describe_1d(cells, df.dtypes[j])
        labels == describe_labels(df)
        stat(l) == LET v == IF l \in DOMAIN d THEN d[l] ELSE NaN
                   IN  IF l \in {"mean", "std"} THEN format_sigfig(v) ELSE v
    IN  [l \in {"ColumnName", "MissVal", "Type"} \cup labels |->
            CASE l = "ColumnName" -> StrCell(df.columns[j])
              [] l = "MissVal"    -> IntCell(Len(cells) - Len(non_missing(cells)))
              [] l = "Type"       -> StrCell(df.dtypes[j])
              [] OTHER            -> stat(l)]

\* Lines 31-33: reindex(columns=column_order), a label the table lacks giving
\* NaN, then the positional renaming to final_columns.
reindex_rename(row) ==
    [f \in Range(final_columns) |->
        LET l == column_order[index_of(final_columns, f)]
        IN  IF l \in DOMAIN row THEN row[l] ELSE NaN]

\* The summary rows of columns 1..n, in the data frame's column order.
RECURSIVE summary_rows(_, _)
summary_rows(df, n) ==
    IF n = 0 THEN << >>
    ELSE Append(summary_rows(df, n - 1), reindex_rename(merged_row(df, n)))

describing(df) ==
    IF Len(df.columns) = 0
    THEN [raised |-> TRUE, exc |-> "Cannot describe a DataFrame without columns"]
    ELSE IF "mean" \notin describe_labels(df)
    THEN [raised |-> TRUE, exc |-> "'mean'"]
    ELSE IF "std" \notin describe_labels(df)
    THEN [raised |-> TRUE, exc |-> "'std'"]
    ELSE [raised |-> FALSE, value |-> summary_rows(df, Len(df.columns))]

\* described_df.replace({np.nan: None}).to_dict(orient='records')
RECURSIVE described_records(_)
described_records(described) ==
    IF described = << >> THEN << >>
    ELSE LET row == Head(described)
         IN  <<[f \in DOMAIN row |-> replace_nan(row[f])]>>
             \o described_records(Tail(described))

\* Lines 53-60 and 72-79: the payload of an ingest or a filter.
data_payload(df, described) ==
    [headers           |-> df.columns,
     data              |-> to_records(df),
     headers_described |-> final_columns,
     data_described    |-> described_records(described)]

(***************************************************************************)
(* Requests and responses.  A response is the status and the JSON body.    *)
(***************************************************************************)
Response(status, body) == [status |-> status, body |-> body]

ErrorBody(msg) == [error |-> msg]

\* The data lines of a payload of n columns: one field per column.
LinesOf(n) ==
    UNION {[1..r -> [1..n -> Fields]] : r \in 0..(MaxCells \div n)}

\* The payloads: the empty one, and a header (a prefix of ColNames) followed
\* by data lines.
Payloads ==
    {<< >>} \cup
    UNION {{<<SubSeq(ColNames, 1, n)>> \o ls : ls \in LinesOf(n)} : n \in 1..Len(ColNames)}

\* Three-line payloads: a complete line, any line, a different complete line.
ExamplePayloads ==
    {<< <<"a", "b">>, <<"1", "x">>, l, <<"1", "1">> >> : l \in [1..2 -> Fields]}

\* The payloads of the plot specification: numbers and text with a missing
\* cell, numbers only, one column.
PlotPayloads ==
    {<< <<"a", "b">>, <<"1", "x">>, <<"", "x">> >>,
     << <<"a", "b">>, <<"1", "1">> >>,
     << <<"a">>, <<"1">> >>}

FileUpload(content) ==
    [op |-> "upload_csv",
     files |-> [file |-> [filename |-> "data.csv", content |-> content]]]

UploadRequests ==
    {[op |-> "upload_csv", files |-> [none |-> TRUE]],
     [op |-> "upload_csv", files |-> [file |-> [filename |-> "", content |-> << >>]]]}
    \cup {FileUpload(c) : c \in Payloads \cup ExamplePayloads}

(***************************************************************************)
(* upload_csv (lines 40-63).  try_ingest is the try block: read_csv        *)
(* raising leaves both globals as they were; once it has returned both are *)
(* assigned, before describing runs, and an exception of describing is     *)
(* caught by the same except clause.                                       *)
(***************************************************************************)
try_ingest(content) ==
    LET parsed == read_csv(content)
    IN  IF parsed.raised
        THEN [assigned |-> FALSE, df |-> None,
              response |-> Response(500, ErrorBody(parsed.exc))]
        ELSE LET described == describing(parsed.value)
             IN  [assigned |-> TRUE, df |-> parsed.value,
                  response |->
                     IF described.raised
                     THEN Response(500, ErrorBody(described.exc))
                     ELSE Response(200, data_payload(parsed.value, described.value))]

\* try_ingest tabulated over the payloads (evaluated once).
try_ingest_of == [c \in Payloads \cup ExamplePayloads \cup PlotPayloads |-> try_ingest(c)]

upload_csv(req) ==
    /\ req.op = "upload_csv"
    /\ request' = req
    /\ px_args' = None
    /\ IF "file" \notin DOMAIN req.files
       THEN /\ response' = Response(400, ErrorBody("No file part"))
            /\ UNCHANGED <<original_df, processed_df, ingested>>
       ELSE IF req.files.file.filename = ""
       THEN /\ response' = Response(400, ErrorBody("No selected file"))
            /\ UNCHANGED <<original_df, processed_df, ingested>>
       ELSE LET r == try_ingest_of[req.files.file.content]
            IN  /\ response' = r.response
                /\ ingested' = (ingested \/ r.response.status = 200)
                /\ IF r.assigned
                   THEN /\ original_df' = r.df
                        /\ processed_df' = copy(r.df)
                   ELSE UNCHANGED <<original_df, processed_df>>

(***************************************************************************)
(* remove_na (lines 65-80).  processed_df is assigned before describing    *)
(* runs; nothing catches an exception of describing, which the framework   *)
(* answers with status 500.                                                *)
(***************************************************************************)
remove_na(req) ==
    /\ req.op = "remove_na"
    /\ request' = req
    /\ px_args' = None
    /\ UNCHANGED <<original_df, ingested>>
    /\ IF original_df = None
       THEN /\ response' = Response(400, ErrorBody("No data uploaded yet"))
            /\ UNCHANGED processed_df
       ELSE LET filtered  == dropna(original_df)
                described == describing(filtered)
            IN  /\ processed_df' = filtered
                /\ response' =
                      IF described.raised
                      THEN Response(500, ErrorBody("Internal Server Error"))
                      ELSE Response(200, data_payload(filtered, described.value))

(***************************************************************************)
(* plot_scatter (lines 82-123).                                            *)
(***************************************************************************)
JNull == [t |-> "null", s |-> "", n |-> 0]

JStr(str) == [t |-> "str", s |-> str, n |-> 0]

\* A JSON number, in tenths.
JNum(tenths) == [t |-> "num", s |-> "", n |-> tenths]

\* The default marker size, 6, and opacity, 0.8, in tenths.
DefaultSize == 60

DefaultOpacity == 8

\* dict.get(key, default)
Get(d, key, default) == IF key \in DOMAIN d THEN d[key] ELSE default

\* Python truth of a JSON value: None, "" and 0 are false.
truthy(v) == (v.t = "str" /\ v.s # "") \/ (v.t = "num" /\ v.n # 0)

OptionalKeys == {"color", "facet_col", "facet_row", "symbol"}

\* Every optional key set, whatever its value.
plot_params_always(request_data, df) ==
    [key \in {"x", "y", "data_frame"} \cup OptionalKeys |->
        IF key = "data_frame" THEN df ELSE Get(request_data, key, JNull)]

\* Lines 102-114: the base keys, and each optional key whose value is true.
plot_params(request_data, df) ==
    [key \in {"x", "y", "data_frame"}
             \cup {o \in OptionalKeys : truthy(Get(request_data, o, JNull))} |->
        IF key = "data_frame" THEN df ELSE request_data[key]]

\* px.scatter(**plot_params): a ValueError when an argument does not name a
\* column of data_frame, else the figure.
px_scatter(params) ==
    LET df == params["data_frame"]
    IN  IF \E key \in DOMAIN params \ {"data_frame"} :
              ~(params[key].t = "str" /\ params[key].s \in Range(df.columns))
        THEN [raised |-> TRUE, exc |-> "Value is not the name of a column in 'data_frame'"]
        ELSE [raised |-> FALSE, value |-> [args |-> params, marker |-> None]]

\* The validators of scatter.marker: size is a number >= 0, opacity a number
\* in [0, 1]; None leaves the property unset.
valid_size(v) == v.t = "null" \/ (v.t = "num" /\ v.n >= 0)

valid_opacity(v) == v.t = "null" \/ (v.t = "num" /\ v.n >= 0 /\ v.n <= 10)

\* fig.update_traces(marker=dict(size=size, opacity=opacity))
update_traces(fig, size, opacity) ==
    IF ~valid_size(size)
    THEN [raised |-> TRUE, exc |-> "Invalid value received for the 'size' property of scatter.marker"]
    ELSE IF ~valid_opacity(opacity)
    THEN [raised |-> TRUE, exc |-> "Invalid value received for the 'opacity' property of scatter.marker"]
    ELSE [raised |-> FALSE,
          value  |-> [fig EXCEPT !.marker = [size |-> size, opacity |-> opacity]]]

plot_scatter(req) ==
    /\ req.op = "plot_scatter"
    /\ request' = req
    /\ UNCHANGED <<original_df, processed_df, ingested>>
    /\ IF processed_df = None
       THEN /\ response' = Response(400, ErrorBody("No processed data available"))
            /\ px_args' = None
       ELSE LET request_data == req.json
                x       == Get(request_data, "x", JNull)
                y       == Get(request_data, "y", JNull)
                size    == Get(request_data, "size", JNum(DefaultSize))
                opacity == Get(request_data, "opacity", JNum(DefaultOpacity))
            IN  IF ~truthy(x) \/ ~truthy(y)
                THEN /\ response' = Response(400, ErrorBody("x and y axis must be specified"))
                     /\ px_args' = None
                ELSE LET params == plot_params(request_data, processed_df)
                         fig    == px_scatter(params)
                     IN  /\ px_args' = params
                         /\ IF fig.raised
                            THEN response' = Response(500,
                                    ErrorBody("Error in plot_scatter: " \o fig.exc))
                            ELSE LET styled == update_traces(fig.value, size, opacity)
                                 IN  response' =
                                        IF styled.raised
                                        THEN Response(500,
                                               ErrorBody("Error in plot_scatter: " \o styled.exc))
                                        ELSE Response(200, styled.value)

PlotRequest(data) == [op |-> "plot_scatter", json |-> data]

\* The JSON objects over the keys of `options`: a key is absent or has one
\* of its values.
JsonObjects(options) ==
    UNION {{f \in [ks -> UNION {options[k] : k \in ks}] : \A k \in ks : f[k] \in options[k]} :
             ks \in SUBSET DOMAIN options}

XY(x, y) == [key \in {"x", "y"} |-> IF key = "x" THEN JStr(x) ELSE JStr(y)]

\* x and y absent, null, empty, a column or no column; nothing else given.
AxisValues == {JNull, JStr(""), JStr("a"), JStr("b"), JStr("zz")}

AxisRequests == JsonObjects([key \in {"x", "y"} |-> AxisValues])

\* x and y given; each optional channel absent, null, empty or a column, and
\* one channel at a time naming no column.
ChannelValues == {JNull, JStr(""), JStr("b")}

ChannelRequests ==
    {XY("a", "b") @@ f : f \in JsonObjects([key \in OptionalKeys |-> ChannelValues])}
    \cup {XY("a", "b") @@ (key :> JStr("zz")) : key \in OptionalKeys}

\* x and y given, with or without a colour channel; size and opacity absent,
\* null, negative, zero, in range or above the range.
SizeValues == {JNull, JNum(-10), JNum(0), JNum(5), JNum(120)}

OpacityValues == {JNull, JNum(-1), JNum(0), JNum(5), JNum(10), JNum(15)}

StyleRequests ==
    {base @@ f : base \in {XY("a", "b"), XY("a", "b") @@ ("color" :> JStr("b"))},
                 f \in JsonObjects([key \in {"size", "opacity"} |->
                        IF key = "size" THEN SizeValues ELSE OpacityValues])}

PlotRequests ==
    {PlotRequest(d) : d \in AxisRequests \cup ChannelRequests \cup StyleRequests}

\* The plot requests of the session specification: no x, and x and y given.
BasicPlotRequests ==
    {PlotRequest(<< >>), PlotRequest(XY("a", "a")), PlotRequest(XY("a", "b"))}

Init ==
    /\ original_df = None
    /\ processed_df = None
    /\ request = [op |-> "none"]
    /\ response = Response(0, None)
    /\ px_args = None
    /\ ingested = FALSE

\* The session: every upload, the filter, the basic plot requests.
Next ==
    \/ \E req \in UploadRequests : upload_csv(req)
    \/ remove_na([op |-> "remove_na"])
    \/ \E req \in BasicPlotRequests : plot_scatter(req)

Spec == Init /\ [][Next]_vars

\* The plot builder: the plot payloads, the filter, every plot request.
NextPlot ==
    \/ \E c \in PlotPayloads : upload_csv(FileUpload(c))
    \/ remove_na([op |-> "remove_na"])
    \/ \E req \in PlotRequests : plot_scatter(req)

SpecPlot == Init /\ [][NextPlot]_vars

(***************************************************************************)
(* Properties.                                                             *)
(***************************************************************************)
\* The rows of df without a missing cell, in df's order, stated apart from
\* dropna.
CompleteRows(df) ==
    SelectSeq(df.rows, LAMBDA r : \A j \in DOMAIN r : r[j] # NaN)

Filtered(df) ==
    [columns |-> df.columns, dtypes |-> df.dtypes, rows |-> CompleteRows(df)]

SessionUnchanged == original_df' = original_df /\ processed_df' = processed_df

\* C1: a filter or plot request answered with an error leaves original and
\* working as they were before the request.
C1_FailedFilterOrPlotKeepsSession ==
    [][(request'.op \in {"remove_na", "plot_scatter"} /\ response'.status # 200)
          => SessionUnchanged]_vars

\* C2: an upload answered with an error leaves original and working as they
\* were before the request.
C2_FailedIngestKeepsSession ==
    [][(request'.op = "upload_csv" /\ response'.status # 200)
          => SessionUnchanged]_vars

\* C3: working is absent together with original, or equals original, or is
\* original without the rows that have a missing cell (same columns, rows in
\* original's order); it equals original right after a successful ingest and
\* is the filtered original right after a filter.
C3_WorkingIsOriginalOrFiltered ==
    /\ (original_df = None) <=> (processed_df = None)
    /\ original_df # None =>
          processed_df \in {original_df, Filtered(original_df)}
    /\ (request.op = "upload_csv" /\ response.status = 200) =>
          processed_df = original_df
    /\ (request.op = "remove_na" /\ original_df # None) =>
          processed_df = Filtered(original_df)

\* A filter has removed a row from between two rows it kept.
C3_Witness ==
    /\ request.op = "remove_na"
    /\ original_df # None
    /\ Len(original_df.rows) = 3
    /\ processed_df.rows = <<original_df.rows[1], original_df.rows[3]>>

\* C4: a filter leaves a working dataset without a missing cell, which the
\* filter applied again leaves as it is; a filter request right after a
\* filter request leaves the same working dataset and gets the same response.
C4_FilterIdempotent ==
    [][(request'.op = "remove_na" /\ original_df # None) =>
          /\ \A i \in DOMAIN processed_df'.rows :
                \A j \in DOMAIN processed_df'.rows[i] : ~isnull(processed_df'.rows[i][j])
          /\ dropna(processed_df') = processed_df'
          /\ request.op = "remove_na" =>
                (processed_df' = processed_df /\ response' = response)]_vars

\* A filter has answered with the summary of a dataset it took rows from.
C4_Witness ==
    /\ request.op = "remove_na"
    /\ response.status = 200
    /\ Len(processed_df.rows) >= 1
    /\ Len(processed_df.rows) < Len(original_df.rows)

\* x or y is absent, null, empty or names no column of df.
BadAxis(json, df) ==
    \E key \in {"x", "y"} :
        \/ key \notin DOMAIN json
        \/ json[key].t # "str"
        \/ json[key].s \notin Range(df.columns)

\* C5: a plot request whose x or y is missing, empty or no column of the
\* working dataset is refused as a validation error (status 400) before the
\* renderer is called.
C5_AxisValidatedBeforeConstruction ==
    (request.op = "plot_scatter" /\ processed_df # None
        /\ BadAxis(request.json, processed_df))
    => (response.status = 400 /\ px_args = None)

GoodChannels(json, df) ==
    \A key \in OptionalKeys \cap DOMAIN json :
        truthy(json[key]) => json[key].s \in Range(df.columns)

StyleOutOfRange(json) ==
    \/ "size" \in DOMAIN json /\ json["size"].t = "num" /\ json["size"].n <= 0
    \/ "opacity" \in DOMAIN json /\ json["opacity"].t = "num"
          /\ (json["opacity"].n < 0 \/ json["opacity"].n > 10)

\* C6: a plot request with valid x and y whose size is <= 0 or whose opacity
\* is outside [0, 1] is answered with an error, never with a figure.
C6_StyleValidated ==
    (request.op = "plot_scatter" /\ processed_df # None
        /\ ~BadAxis(request.json, processed_df)
        /\ GoodChannels(request.json, processed_df)
        /\ StyleOutOfRange(request.json))
    => response.status # 200

\* The optional keys the request gives a non-null, non-empty value.
GivenChannels(json) ==
    {key \in OptionalKeys \cap DOMAIN json : json[key] \notin {JNull, JStr("")}}

C8_SummarizeTotal ==
    \A df \in {original_df, processed_df} \ {None} :
        LET described == describing(df)
        IN  /\ ~described.raised
            /\ Len(described.value) = Len(df.columns)
            /\ \A j \in 1..Len(df.columns) :
                  described.value[j]["ColumnName"] = StrCell(df.columns[j])

MissingIn(df, j) == Cardinality({i \in DOMAIN df.rows : df.rows[i][j] = NaN})

\* C9: in the summary an ingest or a filter returns, every column's Miss
\* field is the number of its missing cells and its Rows field the number
\* of its other cells.
C9_MissingCounted ==
    (request.op \in {"upload_csv", "remove_na"} /\ response.status = 200) =>
        \A j \in 1..Len(processed_df.columns) :
            LET rec == response.body.data_described[j]
            IN  /\ rec["Miss"].k \in {"int", "float"}
                /\ rec["Miss"].n = MissingIn(processed_df, j)
                /\ rec["Rows"].n = Len(processed_df.rows) - MissingIn(processed_df, j)

NoDataYet == Response(400, ErrorBody("No data uploaded yet"))

NoProcessedData == Response(400, ErrorBody("No processed data available"))

\* C10: while no ingest has succeeded a filter request gets the "no data
\* yet" error and a plot request the "no processed data" error; once an
\* ingest has succeeded neither error is returned.
C10_NoDataErrors ==
    /\ (~ingested /\ request.op = "remove_na") => response = NoDataYet
    /\ (~ingested /\ request.op = "plot_scatter") => response = NoProcessedData
    /\ ingested => response \notin {NoDataYet, NoProcessedData}
====
